---- MODULE Spec2Model ----
(***************************************************************************)
(* Model of src/script.js (surf-vibe-code): the start-up pipeline          *)
(*   main -> createMapGrid -> fetchAllWeatherData -> renderHeatmap         *)
(* and its helpers processApiData, getWeightedAverageHeight,               *)
(* getHeatmapColor and renderWaveMarker.                                   *)
(*                                                                         *)
(* JavaScript values are records [t, n, d]:                                *)
(*   t = "num"   the finite number n/d (d > 0, lowest terms)               *)
(*   t = "nan" | "inf" | "ninf"   NaN, +Infinity, -Infinity                *)
(*   t = "null" | "undef"         null, undefined                          *)
(*   t = "numstr" | "badstr"      a string that does / does not parse as   *)
(*                                a number ("1.5" / "n/a")                 *)
(* Arithmetic is exact (rational); IEEE rounding is not modelled.          *)
(* Wave heights are in tenths of a metre.  Geographic coordinates are in   *)
(* fine units of 1/10 of the unit d3.geoDistance measures in, so that a    *)
(* squared distance is (dx^2 + dy^2) / 100 and the 0.01 of the weight      *)
(* formula is the number 1/100.  Distances are planar.                     *)
(***************************************************************************)
EXTENDS Integers, Sequences, FiniteSets, TLC

VARIABLES
    pc,               \* position of main(): awaitGeo, awaitWeather, rendered, done, failed
    errorText,        \* errorDisplay.textContent (showError)
    geo,              \* the GeoJSON document main received (polygon and fitted projection)
    land,             \* map.children: land[i] is TRUE when cell i carries class 'land'
    now,              \* the instant processApiData read with new Date()
    response,         \* what the marine API answered
    allWeatherData,   \* result of fetchAllWeatherData
    validLocations,   \* renderHeatmap's filtered locations
    validWeatherData, \* renderHeatmap's filtered weather entries
    heat,             \* per cell: the weighted height computed for it (sea cells)
    cellColor,        \* per cell: cell.style.backgroundColor
    used,             \* (entry, location) pairs that entered a weighted average
    markers,          \* wave markers appended to cells
    results,          \* per processed non-null entry: what renderWaveMarker returned
    callArgs,         \* arguments of a helper called on its own
    callRet,          \* what that call returned
    callDone          \* whether the call has returned

vars == <<pc, errorText, geo, land, now, response, allWeatherData, validLocations,
          validWeatherData, heat, cellColor, used, markers, results,
          callArgs, callRet, callDone>>

pipeVars == <<pc, errorText, geo, land, now, response, allWeatherData, validLocations,
              validWeatherData, heat, cellColor, used, markers, results>>

callVars == <<callArgs, callRet, callDone>>

(***************************************************************************)
(* JavaScript numbers and values                                           *)
(***************************************************************************)
RECURSIVE Gcd(_, _)
Gcd(a, b) == IF b = 0 THEN a ELSE Gcd(b, a % b)

Abs(x) == IF x < 0 THEN -x ELSE x

\* the finite number n/d in lowest terms with a positive denominator
Frac(n, d) ==
    LET s == IF d < 0 THEN -1 ELSE 1
        g == Gcd(Abs(n), Abs(d))
    IN  [t |-> "num", n |-> (s * n) \div g, d |-> (s * d) \div g]

Num(n) == [t |-> "num", n |-> n, d |-> 1]
NaN == [t |-> "nan", n |-> 0, d |-> 1]
PosInf == [t |-> "inf", n |-> 0, d |-> 1]
NegInf == [t |-> "ninf", n |-> 0, d |-> 1]
JsNull == [t |-> "null", n |-> 0, d |-> 1]
Undefined == [t |-> "undef", n |-> 0, d |-> 1]
NumStr(n) == [t |-> "numstr", n |-> n, d |-> 1]
BadStr == [t |-> "badstr", n |-> 0, d |-> 1]

\* typeof v === 'number'
IsNumberType(v) == v.t \in {"num", "nan", "inf", "ninf"}

\* sign of a number that is not NaN: -1, 0, 1
Sign(v) ==
    CASE v.t = "inf" -> 1
      [] v.t = "ninf" -> -1
      [] OTHER -> IF v.n > 0 THEN 1 ELSE IF v.n < 0 THEN -1 ELSE 0

\* a < b on numbers (false when either is NaN)
JsLt(a, b) ==
    CASE a.t = "nan" \/ b.t = "nan" -> FALSE
      [] a.t = "inf" -> FALSE
      [] a.t = "ninf" -> b.t # "ninf"
      [] b.t = "inf" -> TRUE
      [] b.t = "ninf" -> FALSE
      [] OTHER -> a.n * b.d < b.n * a.d

JsLe(a, b) ==
    /\ a.t # "nan"
    /\ b.t # "nan"
    /\ ~JsLt(b, a)

JsGt(a, b) == JsLt(b, a)
JsGe(a, b) == JsLe(b, a)

JsAdd(a, b) ==
    CASE a.t = "nan" \/ b.t = "nan" -> NaN
      [] a.t = "inf" -> IF b.t = "ninf" THEN NaN ELSE PosInf
      [] a.t = "ninf" -> IF b.t = "inf" THEN NaN ELSE NegInf
      [] b.t \in {"inf", "ninf"} -> b
      [] OTHER -> Frac(a.n * b.d + b.n * a.d, a.d * b.d)

JsNeg(a) ==
    CASE a.t = "inf" -> NegInf
      [] a.t = "ninf" -> PosInf
      [] a.t = "nan" -> NaN
      [] OTHER -> [t |-> "num", n |-> -a.n, d |-> a.d]

JsSub(a, b) == JsAdd(a, JsNeg(b))

JsMul(a, b) ==
    CASE a.t = "nan" \/ b.t = "nan" -> NaN
      [] a.t \in {"inf", "ninf"} \/ b.t \in {"inf", "ninf"} ->
            IF Sign(a) * Sign(b) = 0 THEN NaN
            ELSE IF Sign(a) * Sign(b) > 0 THEN PosInf ELSE NegInf
      [] OTHER ->
            LET g1 == Gcd(Abs(a.n), b.d)
                g2 == Gcd(Abs(b.n), a.d)
            IN  Frac((a.n \div g1) * (b.n \div g2), (a.d \div g2) * (b.d \div g1))

JsDiv(a, b) ==
    CASE a.t = "nan" \/ b.t = "nan" -> NaN
      [] a.t \in {"inf", "ninf"} ->
            IF b.t \in {"inf", "ninf"} THEN NaN
            ELSE IF Sign(a) * (IF Sign(b) < 0 THEN -1 ELSE 1) > 0 THEN PosInf ELSE NegInf
      [] b.t \in {"inf", "ninf"} -> Num(0)
      [] b.n = 0 ->
            IF a.n = 0 THEN NaN ELSE IF a.n > 0 THEN PosInf ELSE NegInf
      [] OTHER ->
            JsMul(a, IF b.n > 0 THEN [t |-> "num", n |-> b.d, d |-> b.n]
                               ELSE [t |-> "num", n |-> -b.d, d |-> -b.n])

\* Math.max(a, b) and Math.min(a, b): NaN when either argument is NaN
MathMax(a, b) ==
    IF a.t = "nan" \/ b.t = "nan" THEN NaN ELSE IF JsLt(a, b) THEN b ELSE a

MathMin(a, b) ==
    IF a.t = "nan" \/ b.t = "nan" THEN NaN ELSE IF JsLt(b, a) THEN b ELSE a

\* the global isNaN(v): v is converted with Number(v) first, so null is 0,
\* a numeric string its number, any other string and undefined are NaN
GlobalIsNaN(v) == v.t \in {"nan", "undef", "badstr"}

(***************************************************************************)
(* JavaScript arrays that may be absent: [def |-> FALSE] is undefined,     *)
(* [def |-> TRUE, arr |-> s] is the array s.  Indices are 0-based as in    *)
(* the source; position i of the array is s[i + 1].                        *)
(***************************************************************************)
Arr(s) == [def |-> TRUE, arr |-> s]
NoArr == [def |-> FALSE, arr |-> <<>>]

\* a time string of the API that parses to the instant k
Iso(k) == [t |-> "iso", n |-> k, d |-> 1]

\* new Date(v).valueOf(): the instant of a parseable time string, the number
\* itself, 0 for null, NaN (Invalid Date) for anything else
DateValue(v) ==
    CASE v.t = "iso" -> Num(v.n)
      [] v.t = "num" -> v
      [] v.t = "null" -> Num(0)
      [] OTHER -> NaN

\* Array.prototype.findIndex with the callback t => new Date(t) > now,
\* scanning from position i: the first matching position, or -1
RECURSIVE FindIndexFrom(_, _, _)
FindIndexFrom(s, i, nowInstant) ==
    IF i >= Len(s) THEN -1
    ELSE IF JsGt(DateValue(s[i + 1]), Num(nowInstant)) THEN i
    ELSE FindIndexFrom(s, i + 1, nowInstant)

\* a variant that keeps findIndex's -1
selectCurrentKeepsMinusOne(time, nowInstant) == FindIndexFrom(time, 0, nowInstant)

\* processApiData, the choice of currentIndex
selectCurrent(time, nowInstant) ==
    LET currentIndex == FindIndexFrom(time, 0, nowInstant)
    IN  IF currentIndex = -1 THEN 0 ELSE currentIndex

\* processApiData's safeGet(arr, idx, def)
safeGet(a, idx, def) ==
    IF ~a.def \/ idx >= Len(a.arr) \/ idx < 0 THEN def
    ELSE LET val == a.arr[idx + 1]
         IN  IF val.t \notin {"null", "undef"} /\ ~GlobalIsNaN(val) THEN val ELSE def

(***************************************************************************)
(* Entries of the API response and of allWeatherData.                      *)
(* A response entry is [kind, time, height, period, direction]:            *)
(*   kind = "null"      a null array element                               *)
(*   kind = "nohourly"  an object without .hourly                          *)
(*   kind = "obj"       an object with .hourly; each series may be absent  *)
(* A processed entry is [kind, height, period, direction, src]:            *)
(*   kind = "null"      null                                               *)
(*   kind = "nocurrent" an object without .current                         *)
(*   kind = "noswell"   an object whose .current has no .swell             *)
(*   kind = "ok"        { current: { swell: { height, period, direction }}}*)
(* src is not a field of the program's object: it records the position of  *)
(* the response entry the object was made from, so that a pairing of an    *)
(* entry with a location can be traced to where the entry came from.       *)
(***************************************************************************)
NullData == [kind |-> "null", height |-> JsNull, period |-> JsNull,
             direction |-> JsNull, src |-> 0]

Processed(h, p, dir, src) ==
    [kind |-> "ok", height |-> h, period |-> p, direction |-> dir, src |-> src]

\* processApiData throws a TypeError when hourly.time is not an array
processApiDataThrows(locationData) == ~locationData.time.def

processApiData(locationData, nowInstant, src) ==
    LET currentIndex == selectCurrent(locationData.time.arr, nowInstant)
    IN  Processed(safeGet(locationData.height, currentIndex, Num(0)),
                  safeGet(locationData.period, currentIndex, Num(0)),
                  safeGet(locationData.direction, currentIndex, Num(0)),
                  src)

(***************************************************************************)
(* getWeightedAverageHeight                                                *)
(* A location is [name, lon, lat] with lon and lat JavaScript values;      *)
(* locations[i] of a list shorter than i + 1 is undefined.                 *)
(***************************************************************************)
Loc(name, lon, lat) == [name |-> name, lon |-> lon, lat |-> lat]

\* d3.geoDistance([lon, lat], [loc.lon, loc.lat]) squared: the squared
\* planar distance in fine units of 1/10, NaN when a coordinate is NaN
geoDistanceSq(lon, lat, locLon, locLat) ==
    LET dx == JsSub(lon, locLon)
        dy == JsSub(lat, locLat)
    IN  JsDiv(JsAdd(JsMul(dx, dx), JsMul(dy, dy)), Num(100))

\* 1 / (dist * dist + 0.01)
idwWeight(distSq) == JsDiv(Num(1), JsAdd(distSq, Frac(1, 100)))

\* the test of line 202: the height is used unless
\* typeof swellHeight !== 'number' || isNaN(swellHeight)
heightIsUsable(swellHeight) ==
    IsNumberType(swellHeight) /\ ~GlobalIsNaN(swellHeight)

\* the early returns of the forEach callback, lines 199-205
skipsObservation(weatherData, locations, i) ==
    \/ weatherData.kind # "ok"
    \/ ~heightIsUsable(weatherData.height)
    \/ i >= Len(locations)
    \/ ~IsNumberType(locations[i + 1].lon)
    \/ ~IsNumberType(locations[i + 1].lat)

\* the forEach of lines 197-212 from position i on, starting with the sums
\* acc = [h |-> totalHeight, w |-> totalWeight, pairs |-> the (src, name)
\* pairs of the entries and locations that were combined]
RECURSIVE idwFold(_, _, _, _, _, _)
idwFold(lon, lat, locations, data, i, acc) ==
    IF i >= Len(data) THEN acc
    ELSE IF skipsObservation(data[i + 1], locations, i)
         THEN idwFold(lon, lat, locations, data, i + 1, acc)
    ELSE LET loc == locations[i + 1]
             weight == idwWeight(geoDistanceSq(lon, lat, loc.lon, loc.lat))
         IN  idwFold(lon, lat, locations, data, i + 1,
                     [h |-> JsAdd(acc.h, JsMul(data[i + 1].height, weight)),
                      w |-> JsAdd(acc.w, weight),
                      pairs |-> acc.pairs \cup {<<data[i + 1].src, loc.name>>}])

idwTotals(lon, lat, locations, data) ==
    idwFold(lon, lat, locations, data, 0, [h |-> Num(0), w |-> Num(0), pairs |-> {}])

\* a variant without the totalWeight > 0 guard
idwResultNoGuard(totals) == JsDiv(totals.h, totals.w)

\* line 214: totalWeight > 0 ? totalHeight / totalWeight : 0
idwResult(totals) ==
    IF JsGt(totals.w, Num(0)) THEN JsDiv(totals.h, totals.w) ELSE Num(0)

getWeightedAverageHeight(lon, lat, locations, data) ==
    idwResult(idwTotals(lon, lat, locations, data))

(***************************************************************************)
(* getHeatmapColor.  Heights are in tenths of a metre, so the stops 0.0,   *)
(* 0.5, 1.5 and 2.5 are 0, 5, 15 and 25.  A colour is [fmt, r, g, b]: fmt  *)
(* "hex" for a "#rrggbb" literal of the table and "rgb" for the            *)
(* "rgb(r, g, b)" string d3.interpolateRgb returns.                        *)
(***************************************************************************)
Hex(r, g, b) == [fmt |-> "hex", r |-> r, g |-> g, b |-> b]
Rgb(r, g, b) == [fmt |-> "rgb", r |-> r, g |-> g, b |-> b]

\* Object.keys(colors).map(parseFloat): the key 0.0 is the integer-like
\* key "0" and comes first, the others follow in insertion order
stops == <<0, 5, 15, 25>>

\* colors[stop]
colors(stop) ==
    CASE stop = 0 -> Hex(47, 62, 70)       \* '#2f3e46'
      [] stop = 5 -> Hex(90, 125, 139)     \* '#5a7d8b'
      [] stop = 15 -> Hex(201, 162, 83)    \* '#c9a253'
      [] stop = 25 -> Hex(181, 101, 77)    \* '#b5654d'

\* Math.round of the finite number v, kept in 0..255 as d3's rgb string does
roundChannel(v) ==
    LET r == (2 * v.n + v.d) \div (2 * v.d)
    IN  IF r < 0 THEN 0 ELSE IF r > 255 THEN 255 ELSE r

\* one channel of d3.interpolateRgb(a, b)(t): a + t * (b - a); NaN prints as 0
mixChannel(a, b, t) ==
    IF t.t # "num" THEN 0
    ELSE roundChannel(JsAdd(Num(a), JsMul(t, Num(b - a))))

interpolateRgb(ca, cb, t) ==
    Rgb(mixChannel(ca.r, cb.r, t), mixChannel(ca.g, cb.g, t), mixChannel(ca.b, cb.b, t))

\* a variant that does not clamp
clampHeightIdentity(height) == height

\* line 218: Math.min(Math.max(height, 0), 2.5)
clampHeight(height) == MathMin(MathMax(height, Num(0)), Num(25))

\* the loop of lines 227-234 from i on: the first i with h <= stops[i]
\* (0-based, so stops[i] is stops[i + 1] here), or 0 when there is none
RECURSIVE findStop(_, _)
findStop(h, i) ==
    IF i >= Len(stops) THEN 0
    ELSE IF JsLe(h, Num(stops[i + 1])) THEN i
    ELSE findStop(h, i + 1)

\* everything getHeatmapColor computes: the clamped height h, the loop index
\* i at which it returned (0: the loop ended), prevStop, nextStop, t, and
\* the colour returned
heatmapStep(height) ==
    LET h == clampHeight(height)
        i == findStop(h, 1)
    IN  IF i = 0
        THEN [h |-> h, i |-> 0, prevStop |-> 0, nextStop |-> 0, t |-> NaN,
              color |-> colors(stops[Len(stops)])]
        ELSE LET prevStop == stops[i]
                 nextStop == stops[i + 1]
                 t == JsDiv(JsSub(h, Num(prevStop)), Num(nextStop - prevStop))
             IN  [h |-> h, i |-> i, prevStop |-> prevStop, nextStop |-> nextStop,
                  t |-> t,
                  color |-> interpolateRgb(colors(prevStop), colors(nextStop), t)]

getHeatmapColor(height) == heatmapStep(height).color

(***************************************************************************)
(* The map: MAP_CONFIG, LOCATIONS, the projection and the polygon.         *)
(* The grid is 2 x 3 cells instead of 35 x 40 and there are two locations  *)
(* instead of nine.  A GeoJSON document is [poly, proj]: poly is the land, *)
(* a rectangle x1..x2 by y1..y2 of geographic fine units (empty when       *)
(* x1 > x2); proj is what d3.geoMercator().fitSize(...) makes of the       *)
(* document: grid x = (lon - ox) / k, grid y = (oy - lat) / k, or a        *)
(* degenerate fit (ok = FALSE) under which every coordinate is NaN.        *)
(***************************************************************************)
MAP_CONFIG == [rows |-> 2, cols |-> 3]

NumCells == MAP_CONFIG.rows * MAP_CONFIG.cols

LOCATIONS == <<Loc("Texel", Num(1), Num(3)), Loc("Domburg", Num(5), Num(1))>>

\* projection([lon, lat])
project(proj, lon, lat) ==
    IF ~proj.ok THEN <<NaN, NaN>>
    ELSE <<JsDiv(JsSub(lon, Num(proj.ox)), Num(proj.k)),
           JsDiv(JsSub(Num(proj.oy), lat), Num(proj.k))>>

\* projection.invert([x, y])
invert(proj, x, y) ==
    IF ~proj.ok THEN <<NaN, NaN>>
    ELSE <<JsAdd(Num(proj.ox), JsMul(x, Num(proj.k))),
           JsSub(Num(proj.oy), JsMul(y, Num(proj.k)))>>

\* d3.geoContains(geoData, [lon, lat])
geoContains(poly, lon, lat) ==
    /\ JsLe(Num(poly.x1), lon) /\ JsLe(lon, Num(poly.x2))
    /\ JsLe(Num(poly.y1), lat) /\ JsLe(lat, Num(poly.y2))

\* getCellCoords: [c, r] of the cell at position index of map.children
getCellCoords(index) == <<index % MAP_CONFIG.cols, index \div MAP_CONFIG.cols>>

\* the geographic point of the cell in row r, column c
cellPoint(proj, r, c) == invert(proj, Num(c), Num(r))

\* a variant that also asks for three of the four probe points around the
\* cell's point to be inside the polygon
createMapGridWithProbes(g) ==
    [i \in 1..NumCells |->
        LET r == (i - 1) \div MAP_CONFIG.cols
            c == (i - 1) % MAP_CONFIG.cols
            p == cellPoint(g.proj, r, c)
            probes == {<<JsAdd(p[1], Num(1)), p[2]>>, <<JsSub(p[1], Num(1)), p[2]>>,
                       <<p[1], JsAdd(p[2], Num(1))>>, <<p[1], JsSub(p[2], Num(1))>>}
        IN  /\ geoContains(g.poly, p[1], p[2])
            /\ Cardinality({q \in probes : geoContains(g.poly, q[1], q[2])}) >= 3]

\* createMapGrid: the cells in the order they are appended (row by row);
\* entry i is TRUE when cell i - 1 got the class 'land'
createMapGrid(g) ==
    [i \in 1..NumCells |->
        LET r == (i - 1) \div MAP_CONFIG.cols
            c == (i - 1) % MAP_CONFIG.cols
            p == cellPoint(g.proj, r, c)
        IN  geoContains(g.poly, p[1], p[2])]

(***************************************************************************)
(* fetchAllWeatherData                                                     *)
(* The API's answer is [kind, entries]: kind "error" when fetchData threw  *)
(* (network failure or a status that is not ok), "notarray" when the body  *)
(* is not an array, "array" with its entries otherwise.                    *)
(***************************************************************************)
\* line 118: !locationData || !locationData.hourly || !...swell_wave_height
hasNoWaveData(locationData) ==
    \/ locationData.kind # "obj"
    \/ ~locationData.height.def

\* the callback of responseArray.map, lines 116-130, for the entry at
\* 1-based position src
processEntry(locationData, nowInstant, src) ==
    IF hasNoWaveData(locationData) THEN NullData
    ELSE IF processApiDataThrows(locationData) THEN NullData
    ELSE processApiData(locationData, nowInstant, src)

allNull(locations) == [i \in 1..Len(locations) |-> NullData]

\* a variant whose per-entry exception reaches the outer catch
fetchAllWeatherDataAbortsOnThrow(locations, resp, nowInstant) ==
    IF resp.kind # "array" \/ Len(resp.entries) = 0 THEN allNull(locations)
    ELSE IF \E i \in 1..Len(resp.entries) :
                ~hasNoWaveData(resp.entries[i]) /\ processApiDataThrows(resp.entries[i])
         THEN allNull(locations)
    ELSE [i \in 1..Len(resp.entries) |-> processEntry(resp.entries[i], nowInstant, i)]

fetchAllWeatherData(locations, resp, nowInstant) ==
    IF resp.kind # "array" \/ Len(resp.entries) = 0 THEN allNull(locations)
    ELSE [i \in 1..Len(resp.entries) |-> processEntry(resp.entries[i], nowInstant, i)]

(***************************************************************************)
(* renderWaveMarker                                                        *)
(***************************************************************************)
\* Math.floor of a finite number
MathFloor(v) == v.n \div v.d

\* getWaveSymbol(dir): the position in the symbols array, -1 for the empty
\* string (dir == null) and -2 for undefined (no such array element)
getWaveSymbol(dir) ==
    CASE dir.t \in {"null", "undef"} -> -1
      [] dir.t \in {"num", "numstr"} ->
            LET k == (2 * dir.n + 45 * dir.d) \div (90 * dir.d)
            IN  IF k >= 0 THEN k % 8 ELSE IF (0 - k) % 8 = 0 THEN 0 ELSE -2
      [] OTHER -> -2

\* createTooltipHtml throws a TypeError when a value that is not null has no
\* toFixed method, which is the case of a string
createTooltipHtmlThrows(weatherData) ==
    \/ weatherData.height.t \in {"numstr", "badstr"}
    \/ weatherData.period.t \in {"numstr", "badstr"}

\* a variant that forgets the upper bound on x
isOutOfGridNoUpperX(x, y) ==
    \/ GlobalIsNaN(x) \/ GlobalIsNaN(y)
    \/ JsLt(x, Num(0)) \/ JsLt(y, Num(0))
    \/ JsGe(y, Num(MAP_CONFIG.rows))

\* line 248, the test on the projected coordinates
isOutOfGrid(x, y) ==
    \/ GlobalIsNaN(x) \/ GlobalIsNaN(y)
    \/ JsLt(x, Num(0)) \/ JsLt(y, Num(0))
    \/ JsGe(x, Num(MAP_CONFIG.cols)) \/ JsGe(y, Num(MAP_CONFIG.rows))

\* a variant of line 274 that never refuses a cell
refusesCellNever(cells, cellIndex) == FALSE

\* line 274: !cell || cell.classList.contains('land')
refusesCell(cells, cellIndex) == cells[cellIndex + 1]

\* what one call of renderWaveMarker does: ret is "true", "false" or "throw";
\* x, y the projected coordinates; cell the cell index it computed (-1 when
\* it returned before); symbol the marker's symbol when one was appended
MarkerOutcome(ret, x, y, cell, symbol) ==
    [ret |-> ret, x |-> x, y |-> y, cell |-> cell, symbol |-> symbol]

renderWaveMarker(hasLocation, location, weatherData, proj, cells) ==
    IF ~hasLocation THEN MarkerOutcome("throw", NaN, NaN, -1, -2)
    ELSE IF weatherData.kind # "ok" THEN MarkerOutcome("false", NaN, NaN, -1, -2)
    ELSE
      LET p == project(proj, location.lon, location.lat)
          x == p[1]
          y == p[2]
      IN  IF isOutOfGrid(x, y) THEN MarkerOutcome("false", x, y, -1, -2)
          ELSE
            LET r == MathFloor(y)
                c == MathFloor(x)
                cellIndex == r * MAP_CONFIG.cols + c
            IN  IF cellIndex < 0 \/ cellIndex >= Len(cells)
                THEN MarkerOutcome("false", x, y, cellIndex, -2)
                ELSE IF refusesCell(cells, cellIndex)
                THEN MarkerOutcome("false", x, y, cellIndex, -2)
                ELSE IF createTooltipHtmlThrows(weatherData)
                THEN MarkerOutcome("throw", x, y, cellIndex, -2)
                ELSE MarkerOutcome("true", x, y, cellIndex,
                                   getWaveSymbol(weatherData.direction))

(***************************************************************************)
(* renderHeatmap                                                           *)
(***************************************************************************)
RECURSIVE filterNonNull(_, _)
filterNonNull(data, i) ==
    IF i > Len(data) THEN <<>>
    ELSE IF data[i].kind # "null" THEN <<data[i]>> \o filterNonNull(data, i + 1)
    ELSE filterNonNull(data, i + 1)

\* line 143: allWeatherData.filter(data => data !== null)
validWeatherDataOf(data) == filterNonNull(data, 1)

\* a variant that keeps every location
validLocationsOfUnfiltered(locations, data) == locations

\* line 144: locations.filter((_, index) => allWeatherData[index] !== null);
\* beyond the end of allWeatherData the element is undefined, which is not null
RECURSIVE filterLocations(_, _, _)
filterLocations(locations, data, i) ==
    IF i > Len(locations) THEN <<>>
    ELSE IF i > Len(data) \/ data[i].kind # "null"
         THEN <<locations[i]>> \o filterLocations(locations, data, i + 1)
    ELSE filterLocations(locations, data, i + 1)

validLocationsOf(locations, data) == filterLocations(locations, data, 1)

Unset == [t |-> "unset", n |-> 0, d |-> 1]
NoColor == [fmt |-> "none", r |-> 0, g |-> 0, b |-> 0]

\* the sums of getWeightedAverageHeight for the cell at position index
cellTotals(proj, index, locs, data) ==
    LET cr == getCellCoords(index)
        p == invert(proj, Num(cr[1]), Num(cr[2]))
    IN  idwTotals(p[1], p[2], locs, data)

\* the forEach of lines 176-181 from position i on; acc = [markers, results,
\* threw]; an exception ends the loop
RECURSIVE placeMarkers(_, _, _, _, _, _)
placeMarkers(locations, data, proj, cells, i, acc) ==
    IF i > Len(data) \/ acc.threw THEN acc
    ELSE IF data[i].kind = "null"
         THEN placeMarkers(locations, data, proj, cells, i + 1, acc)
    ELSE LET hasLoc == i <= Len(locations)
             o == renderWaveMarker(hasLoc, IF hasLoc THEN locations[i] ELSE Unset,
                                   data[i], proj, cells)
         IN  placeMarkers(locations, data, proj, cells, i + 1,
                 [markers |-> IF o.ret = "true"
                              THEN acc.markers \cup
                                   {[cell |-> o.cell, name |-> locations[i].name,
                                     symbol |-> o.symbol]}
                              ELSE acc.markers,
                  results |-> Append(acc.results,
                                     [index |-> i, ret |-> o.ret, x |-> o.x, y |-> o.y,
                                      cell |-> o.cell]),
                  threw |-> o.ret = "throw"])

\* renderHeatmap(locations, allWeatherData, projection) on the grid cells
renderHeatmap(locations, data, proj, cells) ==
    LET vData == validWeatherDataOf(data)
        vLocs == validLocationsOf(locations, data)
    IN  IF Len(vData) = 0
        THEN [validWeatherData |-> vData, validLocations |-> vLocs,
              heat |-> [i \in 1..NumCells |-> Unset],
              cellColor |-> [i \in 1..NumCells |-> NoColor],
              used |-> {}, markers |-> {}, results |-> <<>>, threw |-> FALSE]
        ELSE
          LET totals == [i \in 1..NumCells |-> cellTotals(proj, i - 1, vLocs, vData)]
              height == [i \in 1..NumCells |->
                            IF cells[i] THEN Unset ELSE idwResult(totals[i])]
              placed == placeMarkers(locations, data, proj, cells, 1,
                                     [markers |-> {}, results |-> <<>>, threw |-> FALSE])
          IN  [validWeatherData |-> vData, validLocations |-> vLocs,
               heat |-> height,
               cellColor |-> [i \in 1..NumCells |->
                                 IF cells[i] THEN NoColor ELSE getHeatmapColor(height[i])],
               used |-> UNION {totals[i].pairs : i \in {j \in 1..NumCells : ~cells[j]}},
               markers |-> placed.markers, results |-> placed.results,
               threw |-> placed.threw]

\* all sequences over S of length at most n
SeqUpTo(S, n) == UNION {[1..k -> S] : k \in 0..n}

(***************************************************************************)
(* main: the page after DOMContentLoaded.  main() runs to its first await  *)
(* (the fetch of netherlands.geojson) at once, so the initial state is the *)
(* one in which that fetch is outstanding.                                 *)
(***************************************************************************)
MaxResp == 3

Rect(x1, x2, y1, y2) == [x1 |-> x1, x2 |-> x2, y1 |-> y1, y2 |-> y2]

PolygonInputs ==
    {Rect(1, 0, 1, 0), Rect(4, 8, -2, 8), Rect(4, 8, 2, 8), Rect(-2, 1, 3, 6)}

Fit(ox, oy) == [ok |-> TRUE, ox |-> ox, oy |-> oy, k |-> 2]

ProjectionInputs ==
    {Fit(0, 4), Fit(2, 4), Fit(-6, 4), Fit(0, 6), Fit(0, 2),
     [ok |-> FALSE, ox |-> 0, oy |-> 0, k |-> 2]}

GeoInputs == [poly : PolygonInputs, proj : ProjectionInputs]

Entry(kind, time, height, period, direction) ==
    [kind |-> kind, time |-> time, height |-> height, period |-> period,
     direction |-> direction]

EntryInputs ==
    {Entry("null", NoArr, NoArr, NoArr, NoArr),
     Entry("nohourly", NoArr, NoArr, NoArr, NoArr),
     Entry("obj", Arr(<<Iso(1), Iso(3)>>), NoArr, NoArr, NoArr),
     Entry("obj", NoArr, Arr(<<Num(5), Num(20)>>), Arr(<<Num(8), Num(9)>>),
           Arr(<<Num(270), Num(315)>>)),
     Entry("obj", Arr(<<Iso(1), Iso(3)>>), Arr(<<Num(5), Num(20)>>),
           Arr(<<Num(8), Num(9)>>), Arr(<<Num(270), Num(315)>>)),
     Entry("obj", Arr(<<Iso(1), Iso(3)>>), Arr(<<NumStr(12), PosInf>>),
           Arr(<<JsNull, Num(7)>>), Arr(<<JsNull, Num(90)>>))}

ResponseInputs ==
    {[kind |-> "array", entries |-> e] : e \in SeqUpTo(EntryInputs, MaxResp)}
        \cup {[kind |-> "notarray", entries |-> <<>>]}

NowInputs == {0, 2}

\* before the GeoJSON and the API's answer have arrived
NoGeo == [poly |-> Rect(1, 0, 1, 0), proj |-> [ok |-> FALSE, ox |-> 0, oy |-> 0, k |-> 0]]
NoResponse == [kind |-> "none", entries |-> <<>>]

NoCall ==
    /\ callArgs = "none"
    /\ callRet = "none"
    /\ callDone = FALSE

Init ==
    /\ pc = "awaitGeo"
    /\ errorText = "Loading application..."
    /\ geo = NoGeo
    /\ land = <<>>
    /\ now = 0
    /\ response = NoResponse
    /\ allWeatherData = <<>>
    /\ validLocations = <<>>
    /\ validWeatherData = <<>>
    /\ heat = <<>>
    /\ cellColor = <<>>
    /\ used = {}
    /\ markers = {}
    /\ results = <<>>
    /\ NoCall

\* fetchData('./netherlands.geojson') rejects: main's catch
GeoFetchFails ==
    /\ pc = "awaitGeo"
    /\ pc' = "failed"
    /\ errorText' = "Application failed to load"
    /\ UNCHANGED <<geo, land, now, response, allWeatherData, validLocations,
                   validWeatherData, heat, cellColor, used, markers, results, callVars>>

\* the GeoJSON arrives: setupProjection, createMapGrid, and main goes on to
\* await fetchAllWeatherData
GeoLoaded ==
    /\ pc = "awaitGeo"
    /\ \E g \in GeoInputs :
          /\ geo' = g
          /\ land' = createMapGrid(g)
    /\ errorText' = "Loading weather data..."
    /\ pc' = "awaitWeather"
    /\ UNCHANGED <<now, response, allWeatherData, validLocations, validWeatherData,
                   heat, cellColor, used, markers, results, callVars>>

\* main from line 40 on, with allWeatherData = data
MainAfterWeather(data) ==
    /\ allWeatherData' = data
    /\ IF \A i \in 1..Len(data) : data[i].kind = "null"
       THEN /\ errorText' = "No weather data available for any locations."
            /\ pc' = "done"
            /\ UNCHANGED <<validLocations, validWeatherData, heat, cellColor, used,
                           markers, results>>
       ELSE \E out \in {renderHeatmap(LOCATIONS, data, geo.proj, land)} :
                /\ validLocations' = out.validLocations
                /\ validWeatherData' = out.validWeatherData
                /\ heat' = out.heat
                /\ cellColor' = out.cellColor
                /\ used' = out.used
                /\ markers' = out.markers
                /\ results' = out.results
                /\ IF out.threw
                   THEN pc' = "failed" /\ errorText' = "Application failed to load"
                   ELSE pc' = "rendered" /\ errorText' = "Rendering heatmap..."

\* the marine API answers: fetchAllWeatherData processes the answer and main
\* counts the valid entries and renders
WeatherLoaded ==
    /\ pc = "awaitWeather"
    /\ \E resp \in ResponseInputs, t \in NowInputs :
          /\ response' = resp
          /\ now' = t
          /\ MainAfterWeather(fetchAllWeatherData(LOCATIONS, resp, t))
    /\ UNCHANGED <<geo, land, callVars>>

\* fetchData(apiUrl) rejects: fetchAllWeatherData's catch returns nulls
WeatherFetchFails ==
    /\ pc = "awaitWeather"
    /\ response' = [kind |-> "error", entries |-> <<>>]
    /\ MainAfterWeather(fetchAllWeatherData(LOCATIONS, response', now))
    /\ UNCHANGED <<geo, land, now, callVars>>

\* the setTimeout callback of line 55
ClearError ==
    /\ pc = "rendered"
    /\ errorText' = ""
    /\ pc' = "done"
    /\ UNCHANGED <<geo, land, now, response, allWeatherData, validLocations,
                   validWeatherData, heat, cellColor, used, markers, results, callVars>>

Next ==
    \/ GeoFetchFails
    \/ GeoLoaded
    \/ WeatherLoaded
    \/ WeatherFetchFails
    \/ ClearError

Spec == Init /\ [][Next]_vars

(***************************************************************************)
(* Properties of the pipeline                                              *)
(***************************************************************************)
\* a response entry from which a processed entry can be made
IsWellFormed(e) == e.kind = "obj" /\ e.height.def /\ e.time.def

\* C2: a failure for one location (no hourly data, no swell_wave_height, an
\* exception while processing its entry) gives a null entry for that
\* location only: the batch is not aborted and every well-formed entry still
\* gets its processed, non-null entry.
C2_FailureIsPerLocation ==
    (response.kind = "array" /\ Len(response.entries) > 0) =>
        /\ Len(allWeatherData) = Len(response.entries)
        /\ \A i \in 1..Len(response.entries) :
              IF IsWellFormed(response.entries[i])
              THEN /\ allWeatherData[i].kind = "ok"
                   /\ allWeatherData[i] = processApiData(response.entries[i], now, i)
              ELSE allWeatherData[i] = NullData
        /\ pc = "failed" => \E k \in 1..Len(results) : results[k].ret = "throw"

\* C2 witness: an entry whose processing threw next to a well-formed one
C2_Witness ==
    /\ response.kind = "array"
    /\ Len(response.entries) = 2
    /\ response.entries[1].kind = "obj"
    /\ response.entries[1].height.def
    /\ ~response.entries[1].time.def
    /\ IsWellFormed(response.entries[2])
    /\ allWeatherData[1] = NullData
    /\ allWeatherData[2].kind = "ok"

\* the cell of row r, column c has its point inside the polygon
CentreInside(r, c) ==
    /\ geo.proj.ok
    /\ geo.poly.x1 <= geo.proj.ox + c * geo.proj.k
    /\ geo.proj.ox + c * geo.proj.k <= geo.poly.x2
    /\ geo.poly.y1 <= geo.proj.oy - r * geo.proj.k
    /\ geo.proj.oy - r * geo.proj.k <= geo.poly.y2

\* how many of the four probe points (the cell's point moved by one fine
\* unit east, west, north, south) are inside the polygon
ProbesInside(r, c) ==
    Cardinality({dd \in {<<1, 0>>, <<-1, 0>>, <<0, 1>>, <<0, -1>>} :
        /\ geo.proj.ok
        /\ geo.poly.x1 <= geo.proj.ox + c * geo.proj.k + dd[1]
        /\ geo.proj.ox + c * geo.proj.k + dd[1] <= geo.poly.x2
        /\ geo.poly.y1 <= geo.proj.oy - r * geo.proj.k + dd[2]
        /\ geo.proj.oy - r * geo.proj.k + dd[2] <= geo.poly.y2})

IsLand(r, c) == land[r * MAP_CONFIG.cols + c + 1]

Rows == 0..(MAP_CONFIG.rows - 1)
Cols == 0..(MAP_CONFIG.cols - 1)

IsValidCall(k) ==
    /\ results[k].index <= Len(LOCATIONS)
    /\ allWeatherData[results[k].index].kind = "ok"
    /\ IsNumberType(allWeatherData[results[k].index].height)
    /\ IsNumberType(allWeatherData[results[k].index].period)

\* the projected coordinates of call k are NaN, negative or beyond the grid
IsOutside(k) ==
    LET x == results[k].x
        y == results[k].y
    IN  \/ x.t # "num" \/ y.t # "num"
        \/ x.n < 0 \/ y.n < 0
        \/ x.n >= MAP_CONFIG.cols * x.d
        \/ y.n >= MAP_CONFIG.rows * y.d

\* the index of the cell containing the projected point of call k
ContainingCell(k) ==
    (results[k].y.n \div results[k].y.d) * MAP_CONFIG.cols
        + (results[k].x.n \div results[k].x.d)

HasMarker(k, cell) ==
    \E m \in markers : m.cell = cell /\ m.name = LOCATIONS[results[k].index].name

HasAnyMarker(k) ==
    \E m \in markers : m.name = LOCATIONS[results[k].index].name

\* C4 (the claim as stated): a location with valid data whose projected
\* point is inside the grid gets its marker in the containing cell, also
\* when that cell is land.
C4_MarkerPlacedEvenOnLand ==
    \A k \in 1..Len(results) :
        (IsValidCall(k) /\ ~IsOutside(k)) => HasMarker(k, ContainingCell(k))

\* C4 (amended): such a location gets its marker in the containing cell
\* when that cell is sea; when the cell is land renderWaveMarker returns
\* false and adds no marker.
C4_MarkerPlacedOnlyOnSea ==
    \A k \in 1..Len(results) :
        (IsValidCall(k) /\ ~IsOutside(k)) =>
            IF land[ContainingCell(k) + 1]
            THEN results[k].ret = "false" /\ ~HasAnyMarker(k)
            ELSE results[k].ret = "true" /\ HasMarker(k, ContainingCell(k))

\* C4 witness: a valid location inside the grid on a land cell, refused
C4_Witness ==
    \E k \in 1..Len(results) :
        /\ IsValidCall(k)
        /\ ~IsOutside(k)
        /\ land[ContainingCell(k) + 1]
        /\ results[k].ret = "false"

\* C5: with a projected coordinate that is NaN, negative or >= the grid
\* dimension renderWaveMarker returns false, without throwing and without
\* adding a marker; otherwise the target cell is (floor(y), floor(x)) and
\* its index floor(y) * cols + floor(x) lies in [0, rows * cols).
C5_OutOfBoundsReported ==
    \A k \in 1..Len(results) :
        IsValidCall(k) =>
            IF IsOutside(k)
            THEN results[k].ret = "false" /\ ~HasAnyMarker(k)
            ELSE /\ results[k].cell = ContainingCell(k)
                 /\ results[k].cell >= 0
                 /\ results[k].cell < MAP_CONFIG.rows * MAP_CONFIG.cols
                 /\ results[k].ret = "true" => HasMarker(k, ContainingCell(k))
                 /\ HasAnyMarker(k) => HasMarker(k, ContainingCell(k))

\* C5 witness: a projected x beyond the last column, reported
C5_Witness ==
    \E k \in 1..Len(results) :
        /\ IsValidCall(k)
        /\ results[k].x.t = "num"
        /\ results[k].x.n >= MAP_CONFIG.cols * results[k].x.d
        /\ results[k].y.t = "num"
        /\ results[k].y.n >= 0
        /\ results[k].y.n < results[k].y.d
        /\ results[k].ret = "false"

\* C5 witness of NaN coordinates
C5_WitnessNaN ==
    \E k \in 1..Len(results) :
        IsValidCall(k) /\ results[k].x.t = "nan" /\ results[k].ret = "false"

\* C5 witness of a negative coordinate
C5_WitnessNegative ==
    \E k \in 1..Len(results) :
        /\ IsValidCall(k)
        /\ results[k].y.t = "num"
        /\ results[k].y.n < 0
        /\ results[k].ret = "false"

\* C5 witness of a placement inside the grid
C5_WitnessPlaced ==
    \E k \in 1..Len(results) :
        IsValidCall(k) /\ ~IsOutside(k) /\ results[k].ret = "true"

\* C10: whatever fetchAllWeatherData returned, each non-null entry is
\* paired in renderHeatmap with the location it was fetched for, so a
\* height is only ever weighted by the distance to its own location.
C10_EntryPairedWithOwnLocation ==
    /\ \A pr \in used :
          /\ pr[1] \in 1..Len(LOCATIONS)
          /\ LOCATIONS[pr[1]].name = pr[2]
    /\ \A i \in 1..Len(validWeatherData) :
          i <= Len(validLocations) =>
              /\ validWeatherData[i].src \in 1..Len(LOCATIONS)
              /\ validLocations[i] = LOCATIONS[validWeatherData[i].src]

\* C10 witness: a null entry before a non-null one, which was used with the
\* second location
C10_Witness ==
    /\ Len(allWeatherData) >= 2
    /\ allWeatherData[1].kind = "null"
    /\ allWeatherData[2].kind = "ok"
    /\ <<2, LOCATIONS[2].name>> \in used

\* C10 witness of more entries than locations
C10_WitnessLonger ==
    /\ Len(allWeatherData) > Len(LOCATIONS)
    /\ allWeatherData[Len(allWeatherData)].kind = "ok"
    /\ used # {}

\* C10 witness of fewer entries than locations
C10_WitnessShorter ==
    /\ Len(allWeatherData) = 1
    /\ Len(validLocations) = Len(LOCATIONS)
    /\ used # {}

(***************************************************************************)
(* Helpers called on their own: the arguments are drawn in the initial     *)
(* state, the one action is the call.  The page itself is not running.     *)
(***************************************************************************)
PageIdle ==
    /\ pc = "idle"
    /\ errorText = ""
    /\ geo = NoGeo
    /\ land = <<>>
    /\ now = 0
    /\ response = NoResponse
    /\ allWeatherData = <<>>
    /\ validLocations = <<>>
    /\ validWeatherData = <<>>
    /\ heat = <<>>
    /\ cellColor = <<>>
    /\ used = {}
    /\ markers = {}
    /\ results = <<>>

\* ---- selectCurrent ----
MaxSeries == 3
MaxInstant == 3

TimeInputs == {Iso(k) : k \in 1..MaxInstant} \cup {BadStr}

InitSelect ==
    /\ PageIdle
    /\ callArgs \in [time : SeqUpTo(TimeInputs, MaxSeries), now : 0..MaxInstant]
    /\ callRet = -2
    /\ callDone = FALSE

CallSelectCurrent ==
    /\ ~callDone
    /\ callRet' = selectCurrent(callArgs.time, callArgs.now)
    /\ callDone' = TRUE
    /\ UNCHANGED <<callArgs, pipeVars>>

NextSelect == CallSelectCurrent

SpecSelect == InitSelect /\ [][NextSelect]_vars

\* the positions of the series whose timestamp is strictly after now
PositionsAfterNow ==
    {i \in 0..(Len(callArgs.time) - 1) :
        /\ callArgs.time[i + 1].t = "iso"
        /\ callArgs.time[i + 1].n > callArgs.now}

\* C1: the index selectCurrent chooses is the first position whose timestamp
\* is strictly after now, and 0 when there is none (also for the empty
\* series); it is never -1 and always within [0, max(len - 1, 0)].
C1_SelectCurrentIsFirstFuture ==
    callDone =>
        /\ PositionsAfterNow = {} => callRet = 0
        /\ PositionsAfterNow # {} =>
              /\ callRet \in PositionsAfterNow
              /\ \A j \in PositionsAfterNow : callRet <= j
        /\ callRet # -1
        /\ callRet >= 0
        /\ callRet <= (IF Len(callArgs.time) >= 1 THEN Len(callArgs.time) - 1 ELSE 0)

\* C1 witness: a series whose first position is past, a later one is in the
\* future, and the call chose the later one
C1_Witness ==
    /\ callDone
    /\ Len(callArgs.time) = MaxSeries
    /\ 0 \notin PositionsAfterNow
    /\ PositionsAfterNow # {}
    /\ callRet > 0

\* C1 witness of the fallback: a non-empty series with nothing after now
C1_WitnessNoneAfter ==
    /\ callDone
    /\ Len(callArgs.time) > 0
    /\ PositionsAfterNow = {}
    /\ callRet = 0

\* ---- getHeatmapColor ----
MaxOver == 6

ColorInputs ==
    {Frac(k, 2) : k \in (0 - MaxOver)..(2 * stops[Len(stops)] + MaxOver)}
        \cup {NaN, PosInf, NegInf}

InitColor ==
    /\ PageIdle
    /\ callArgs \in [height : ColorInputs]
    /\ callRet = "none"
    /\ callDone = FALSE

CallGetHeatmapColor ==
    /\ ~callDone
    /\ callRet' = heatmapStep(callArgs.height)
    /\ callDone' = TRUE
    /\ UNCHANGED <<callArgs, pipeVars>>

NextColor == CallGetHeatmapColor

SpecColor == InitColor /\ [][NextColor]_vars

LowestStop == Num(stops[1])
HighestStop == Num(stops[Len(stops)])

\* v clamped to [lowest threshold, highest threshold]
ClampedToDomain(v) ==
    IF JsLt(v, LowestStop) THEN LowestStop
    ELSE IF JsGt(v, HighestStop) THEN HighestStop ELSE v

\* the same colour, whether written "#rrggbb" or "rgb(r, g, b)"
SameColor(c1, c2) == c1.r = c2.r /\ c1.g = c2.g /\ c1.b = c2.b

\* C9: colorFor(v) = colorFor(v clamped to the domain); at the lowest and
\* highest thresholds the colour is the first and last stop's colour; inside
\* the domain the pair used is the first consecutive pair with
\* prev <= v <= next and t = (v - prev) / (next - prev) lies in [0, 1].
C9_ColorClampAndEndpoints ==
    callDone =>
        LET v == callArgs.height
            r == callRet
        IN  /\ r.color = getHeatmapColor(ClampedToDomain(v))
            /\ JsLe(v, LowestStop) => SameColor(r.color, colors(stops[1]))
            /\ JsGe(v, HighestStop) => SameColor(r.color, colors(stops[Len(stops)]))
            /\ (JsLe(LowestStop, v) /\ JsLe(v, HighestStop)) =>
                  /\ r.i \in 1..(Len(stops) - 1)
                  /\ r.prevStop = stops[r.i]
                  /\ r.nextStop = stops[r.i + 1]
                  /\ JsLe(Num(r.prevStop), v) /\ JsLe(v, Num(r.nextStop))
                  /\ \A j \in 1..(Len(stops) - 1) :
                        (JsLe(Num(stops[j]), v) /\ JsLe(v, Num(stops[j + 1]))) => r.i <= j
                  /\ r.t = JsDiv(JsSub(v, Num(r.prevStop)), Num(r.nextStop - r.prevStop))
                  /\ JsLe(Num(0), r.t) /\ JsLe(r.t, Num(1))

\* C9 witness: a value below the domain was coloured
C9_Witness ==
    /\ callDone
    /\ JsLt(callArgs.height, LowestStop)
    /\ SameColor(callRet.color, colors(stops[1]))

\* C9 witness of an interior stop: the value sits on two pairs, the first is used
C9_WitnessInteriorStop ==
    /\ callDone
    /\ callArgs.height = Num(stops[2])
    /\ callRet.i = 1
    /\ callRet.t = Num(1)

\* ---- getWeightedAverageHeight ----
MaxObs == 2

InterpLocInputs ==
    {Loc("A", Num(0), Num(0)), Loc("B", Num(2), Num(0)), Loc("X", Undefined, Num(0))}

InterpHeightInputs == {Num(5), Num(20), NaN, PosInf, NegInf, Undefined}

InterpDataInputs ==
    {NullData, [NullData EXCEPT !.kind = "noswell"]}
        \cup {Processed(h, Num(0), Num(0), 0) : h \in InterpHeightInputs}

InterpQueryInputs == {<<Num(0), Num(0)>>, <<Num(1), Num(2)>>}

InitInterp ==
    /\ PageIdle
    /\ callArgs \in [query : InterpQueryInputs,
                     locations : SeqUpTo(InterpLocInputs, MaxObs),
                     data : SeqUpTo(InterpDataInputs, MaxObs)]
    /\ callRet = "none"
    /\ callDone = FALSE

CallGetWeightedAverageHeight ==
    /\ ~callDone
    /\ LET totals == idwTotals(callArgs.query[1], callArgs.query[2],
                               callArgs.locations, callArgs.data)
       IN  callRet' = [value |-> idwResult(totals), totalWeight |-> totals.w]
    /\ callDone' = TRUE
    /\ UNCHANGED <<callArgs, pipeVars>>

NextInterp == CallGetWeightedAverageHeight

SpecInterp == InitInterp /\ [][NextInterp]_vars

\* observation i has a location: locations[i] exists with numeric lon and lat
HasLocation(i) ==
    /\ i < Len(callArgs.locations)
    /\ IsNumberType(callArgs.locations[i + 1].lon)
    /\ IsNumberType(callArgs.locations[i + 1].lat)

\* observation i is valid in the sense of the specification: a finite
\* number for its scalar value, and a location
IsValidObservation(i) ==
    /\ callArgs.data[i + 1].kind = "ok"
    /\ callArgs.data[i + 1].height.t = "num"
    /\ HasLocation(i)

\* the observations from position i on that are valid, as parallel lists
RECURSIVE ValidFrom(_)
ValidFrom(i) ==
    IF i >= Len(callArgs.data) THEN [locations |-> <<>>, data |-> <<>>]
    ELSE LET rest == ValidFrom(i + 1)
         IN  IF IsValidObservation(i)
             THEN [locations |-> <<callArgs.locations[i + 1]>> \o rest.locations,
                   data |-> <<callArgs.data[i + 1]>> \o rest.data]
             ELSE rest

\* C6 (the claim as stated): every observation whose value is missing, NaN
\* or not finite (+/-Infinity included), or whose location is missing, adds
\* to neither sum, so the result is the result over the valid observations.
C6_SkipsEveryInvalidObservation ==
    callDone =>
        callRet.value =
            getWeightedAverageHeight(callArgs.query[1], callArgs.query[2],
                                     ValidFrom(0).locations, ValidFrom(0).data)

\* C6, the part the code keeps: with no infinite height among the
\* observations the result is the result over the valid observations
C6_SkipsWhenNoInfiniteHeight ==
    (callDone /\ \A i \in 1..Len(callArgs.data) :
                    callArgs.data[i].height.t \notin {"inf", "ninf"}) =>
        callRet.value =
            getWeightedAverageHeight(callArgs.query[1], callArgs.query[2],
                                     ValidFrom(0).locations, ValidFrom(0).data)

\* observation i is one the code does not use: a null or malformed entry,
\* a height that is no number or is NaN, or no location
IsUnused(i) ==
    \/ callArgs.data[i + 1].kind # "ok"
    \/ callArgs.data[i + 1].height.t \notin {"num", "inf", "ninf"}
    \/ ~HasLocation(i)

Contributing == {i \in 0..(Len(callArgs.data) - 1) : ~IsUnused(i)}

\* C7: when no observation contributes (the list is empty, or every
\* observation is skipped, so that the weight sum is zero) the result is 0.
C7_FallbackIsZero ==
    (callDone /\ Contributing = {}) =>
        /\ callRet.totalWeight = Num(0)
        /\ callRet.value = Num(0)

\* C7 witness: a non-empty list all of whose observations were skipped
C7_Witness ==
    /\ callDone
    /\ Len(callArgs.data) = MaxObs
    /\ Len(callArgs.locations) = MaxObs
    /\ Contributing = {}
    /\ callRet.value = Num(0)

\* C7 witness of the empty list
C7_WitnessEmpty ==
    /\ callDone
    /\ callArgs.data = <<>>
    /\ callRet.value = Num(0)

\* C8 (the claim as stated): with at least one contributing observation the
\* result lies between the least and the greatest contributing value.
C8_ResultBetweenMinAndMax ==
    (callDone /\ Contributing # {}) =>
        /\ \E i \in Contributing : JsLe(callArgs.data[i + 1].height, callRet.value)
        /\ \E i \in Contributing : JsLe(callRet.value, callArgs.data[i + 1].height)

\* C8, the part the code keeps: it holds when every contributing value is finite
C8_BetweenWhenAllFinite ==
    (callDone /\ Contributing # {}
        /\ \A i \in Contributing : callArgs.data[i + 1].height.t = "num") =>
        /\ \E i \in Contributing : JsLe(callArgs.data[i + 1].height, callRet.value)
        /\ \E i \in Contributing : JsLe(callRet.value, callArgs.data[i + 1].height)

====
